---- MODULE Spec2Model ----
(***************************************************************************)
(* A model of the UNFCCC category parser, hierarchy builder and header     *)
(* detector of GHG_dashboard (src/ghg_processing/unfccc).                  *)
(*                                                                         *)
(* Python strings are TLA+ strings; TLC evaluates Len, SubSeq and \o on    *)
(* them, so the string functions of the code (strip, startswith, split,    *)
(* the `in` test, lower) are modelled character by character.              *)
(***************************************************************************)
EXTENDS Integers, Sequences, FiniteSets, Bags, TLC

VARIABLES
    category_str, result, parse_pc,                     \* get_category
    df, pc, parsed, i, current_context, level_names, out, parts,  \* process_hierarchical_data
    sheet, anchor, keywords, lookahead, preview, row_i, target_row,
    header_rows, hdr_pc,                                \* detect_header_rows
    filename, name_result, name_pc,                     \* extract_year_from_filename
    pv_df, pv_gas, pv_path, pv_fs, pv_pc,               \* save_gas_level_parquet
    ld_fs, country_code, ld_k, data_dict, ld_pc,        \* load_country_data
    batch, sheet_name, pending, out_fs, log, runs, first_fs, sh_pc, \* process_summary_sheet
    col, clean_name, flat_pc,                           \* clean_column
    df_columns, first_row, new_columns, row_dropped, unit_pc  \* unit-row absorption

parse_vars == <<category_str, result, parse_pc>>
build_vars == <<df, pc, parsed, i, current_context, level_names, out, parts>>
hdr_vars   == <<sheet, anchor, keywords, lookahead, preview, row_i, target_row,
               header_rows, hdr_pc>>
name_vars  == <<filename, name_result, name_pc>>
pivot_vars == <<pv_df, pv_gas, pv_path, pv_fs, pv_pc>>
load_vars  == <<ld_fs, country_code, ld_k, data_dict, ld_pc>>
sheet_vars == <<batch, sheet_name, pending, out_fs, log, runs, first_fs, sh_pc>>
read_vars  == <<col, clean_name, flat_pc,
               df_columns, first_row, new_columns, row_dropped, unit_pc>>
ext_vars   == <<name_vars, pivot_vars, load_vars, sheet_vars, read_vars>>
vars       == <<parse_vars, build_vars, hdr_vars, ext_vars>>

\* what the actions of one component leave alone
name_frame  == <<parse_vars, build_vars, hdr_vars, pivot_vars, load_vars, sheet_vars,
                read_vars>>
pivot_frame == <<parse_vars, build_vars, hdr_vars, name_vars, load_vars, sheet_vars,
                read_vars>>
load_frame  == <<parse_vars, build_vars, hdr_vars, name_vars, pivot_vars, sheet_vars,
                read_vars>>
sheet_frame == <<parse_vars, build_vars, hdr_vars, name_vars, pivot_vars, load_vars,
                read_vars>>
read_frame  == <<parse_vars, build_vars, hdr_vars, name_vars, pivot_vars, load_vars,
                sheet_vars>>

(***************************************************************************)
(* Bounds of the model.                                                    *)
(***************************************************************************)
MaxRows == 3        \* longest table enumerated over all of Categories
MaxSegs == 3        \* longest outline code enumerated for the parser
MaxSheetRows == 3   \* rows of the sheets enumerated for the header detector
MaxNameSegs == 6    \* most '-' separated segments of the file names enumerated
MaxPivotRows == 3   \* rows of the partitions enumerated for the gas pivot
MaxFiles == 2       \* most workbooks in the input folder of a batch
MaxRuns == 2        \* most invocations of process_summary_sheet on one output tree
MaxHeaderLevels == 2 \* most header rows stacked over one column of the sheet read
MaxCols == 2        \* most columns of the frame whose first data row is inspected

(***************************************************************************)
(* Python string primitives.                                               *)
(***************************************************************************)
Whitespace == {" ", "\t"}
Digits == {"0", "1", "2", "3", "4", "5", "6", "7", "8", "9"}

CharAt(s, k) == SubSeq(s, k, k)

\* str.startswith(prefix)
StartsWith(s, prefix) ==
    Len(s) >= Len(prefix) /\ SubSeq(s, 1, Len(prefix)) = prefix

\* sub in s
Contains(s, sub) ==
    \E k \in 1..(Len(s) - Len(sub) + 1) : SubSeq(s, k, k + Len(sub) - 1) = sub

\* c.isdigit() for one character
IsDigit(c) == c \in Digits

RECURSIVE LStrip(_, _)
LStrip(s, chars) ==
    IF Len(s) > 0 /\ CharAt(s, 1) \in chars
    THEN LStrip(SubSeq(s, 2, Len(s)), chars)
    ELSE s

RECURSIVE RStrip(_, _)
RStrip(s, chars) ==
    IF Len(s) > 0 /\ CharAt(s, Len(s)) \in chars
    THEN RStrip(SubSeq(s, 1, Len(s) - 1), chars)
    ELSE s

\* str.strip() and str.strip(chars)
Strip(s, chars) == RStrip(LStrip(s, chars), chars)

\* str.find(c) for one character, 1-based; 0 when c does not occur
Find(s, c) ==
    IF \E k \in 1..Len(s) : CharAt(s, k) = c
    THEN CHOOSE k \in 1..Len(s) :
            /\ CharAt(s, k) = c
            /\ \A j \in 1..(k - 1) : CharAt(s, j) # c
    ELSE 0

\* str.split(c): a tuple of strings, empty pieces kept
RECURSIVE Split(_, _)
Split(s, c) ==
    LET k == Find(s, c)
    IN  IF k = 0
        THEN <<s>>
        ELSE <<SubSeq(s, 1, k - 1)>> \o Split(SubSeq(s, k + 1, Len(s)), c)

(***************************************************************************)
(* get_category: one category label to a node                              *)
(*   [levels, label, is_memo, is_numbered].                                *)
(***************************************************************************)
IsMemoPrefix(s) ==
    \/ StartsWith(s, "Memo items:")
    \/ StartsWith(s, "1.D.")
    \/ StartsWith(s, "5.F.")
    \/ StartsWith(s, "Indirect N2O")
    \/ StartsWith(s, "Indirect CO2")

\* A parser that tests the memo markers by containment and before the
\* Total case, so that a Total line mentioning a memo marker is a memo.
get_category_memo_first(raw) ==
    LET s == Strip(raw, Whitespace)
        is_memo == Contains(s, "Memo items:") \/ IsMemoPrefix(s)
    IN  IF Len(s) > 0 /\ IsDigit(CharAt(s, 1)) /\ Contains(s, ".")
        THEN LET k == Find(s, " ")
                 level == IF k > 0 THEN SubSeq(s, 1, k - 1) ELSE s
                 label == IF k > 0 THEN SubSeq(s, k + 1, Len(s)) ELSE s
             IN  [levels |-> Split(Strip(level, {"."}), "."),
                  label |-> Strip(label, Whitespace),
                  is_memo |-> is_memo, is_numbered |-> TRUE]
        ELSE [levels |-> <<>>, label |-> s,
              is_memo |-> is_memo, is_numbered |-> FALSE]

\* A parser that takes every label starting with a digit for a numbered
\* one, as the older parser of src/process_hierachical.py does.
get_category_digit_only(raw) ==
    LET s == Strip(raw, Whitespace)
    IN  IF StartsWith(s, "Total")
        THEN [levels |-> <<>>, label |-> s,
              is_memo |-> FALSE, is_numbered |-> FALSE]
        ELSE IF Len(s) > 0 /\ IsDigit(CharAt(s, 1))
        THEN LET k == Find(s, " ")
                 level == IF k > 0 THEN SubSeq(s, 1, k - 1) ELSE s
                 label == IF k > 0 THEN SubSeq(s, k + 1, Len(s)) ELSE s
             IN  [levels |-> Split(Strip(level, {"."}), "."),
                  label |-> Strip(label, Whitespace),
                  is_memo |-> IsMemoPrefix(s), is_numbered |-> TRUE]
        ELSE [levels |-> <<>>, label |-> s,
              is_memo |-> IsMemoPrefix(s), is_numbered |-> FALSE]

\* A parser that, when the string holds no space, ends the code at the first
\* character that is not a digit, a dot or 'A', as the older parser of
\* src/process_hierachical.py does.
get_category_boundary(raw) ==
    LET s == Strip(raw, Whitespace)
        CodeChars == Digits \cup {".", "A"}
        Ends == {j \in 1..Len(s) : CharAt(s, j) \notin CodeChars}
    IN  IF StartsWith(s, "Total")
        THEN [levels |-> <<>>, label |-> s,
              is_memo |-> FALSE, is_numbered |-> FALSE]
        ELSE IF Len(s) > 0 /\ IsDigit(CharAt(s, 1)) /\ Contains(s, ".")
        THEN LET k == Find(s, " ")
                 b == IF Ends = {} THEN 0
                      ELSE CHOOSE j \in Ends : \A m \in Ends : j <= m
                 level == IF k > 0 THEN SubSeq(s, 1, k - 1)
                          ELSE IF b > 0 THEN SubSeq(s, 1, b - 1) ELSE s
                 label == IF k > 0 THEN SubSeq(s, k + 1, Len(s))
                          ELSE IF b > 0 THEN SubSeq(s, b, Len(s)) ELSE s
             IN  [levels |-> Split(Strip(level, {"."}), "."),
                  label |-> Strip(label, Whitespace),
                  is_memo |-> IsMemoPrefix(s), is_numbered |-> TRUE]
        ELSE [levels |-> <<>>, label |-> s,
              is_memo |-> IsMemoPrefix(s), is_numbered |-> FALSE]

get_category(raw) ==
    LET s == Strip(raw, Whitespace)
    IN  IF StartsWith(s, "Total")
        THEN [levels |-> <<>>, label |-> s,
              is_memo |-> FALSE, is_numbered |-> FALSE]
        ELSE IF Len(s) > 0 /\ IsDigit(CharAt(s, 1)) /\ Contains(s, ".")
        THEN LET k == Find(s, " ")
                 level == IF k > 0 THEN SubSeq(s, 1, k - 1) ELSE s
                 label == IF k > 0 THEN SubSeq(s, k + 1, Len(s)) ELSE s
             IN  [levels |-> Split(Strip(level, {"."}), "."),
                  label |-> Strip(label, Whitespace),
                  is_memo |-> IsMemoPrefix(s), is_numbered |-> TRUE]
        ELSE [levels |-> <<>>, label |-> s,
              is_memo |-> IsMemoPrefix(s), is_numbered |-> FALSE]


(***************************************************************************)
(* The parser on its own: one call of get_category on one input string.    *)
(***************************************************************************)
FirstSegs == {"1", "5"}
Segs == {"1", "A", "D"}
Labels == {"label", "Total fuels", "n.e.c."}

\* the outline codes of exactly k segments, as tuples of segments
RECURSIVE SegSeqs(_)
SegSeqs(k) ==
    IF k = 1
    THEN {<<f>> : f \in FirstSegs}
    ELSE {c \o <<s>> : c \in SegSeqs(k - 1), s \in Segs}

Codes == UNION {SegSeqs(k) : k \in 1..MaxSegs}

\* ".".join(segs)
RECURSIVE Join(_)
Join(segs) ==
    IF Len(segs) = 1
    THEN segs[1]
    ELSE segs[1] \o "." \o Join(Tail(segs))

\* "n1.n2.....nk label"
Form(segs, lab) == Join(segs) \o " " \o lab

TotalStrings ==
    {"Total", "Totals", "Total national emissions",
     "Total incl. Memo items: bunkers", "Total 1.A fuels",
     "Total CO2 equivalent emissions "}

OtherStrings ==
    {"", "Memo items: International bunkers", "Indirect CO2",
     "Indirect N2O", "some prose note", " Total with LULUCF",
     "2006 guidelines", "1.A.1.a.i.2.b.3.c deep"}

ParserInputs ==
    {Form(c, lab) : c \in Codes, lab \in Labels}
        \cup {Join(c) : c \in Codes}
        \cup {Join(c) \o ". " \o lab : c \in Codes, lab \in Labels}
        \cup {Join(c) \o "." : c \in Codes}
        \cup TotalStrings \cup OtherStrings

NoNode == [levels |-> <<>>, label |-> "", is_memo |-> FALSE, is_numbered |-> FALSE]

ParseInit ==
    /\ category_str \in ParserInputs
    /\ result = NoNode
    /\ parse_pc = "call"

ParseIdle ==
    /\ category_str = ""
    /\ result = NoNode
    /\ parse_pc = "idle"

\* the call get_category(category_str)
GetCategory ==
    /\ parse_pc = "call"
    /\ result' = get_category(category_str)
    /\ parse_pc' = "return"
    /\ UNCHANGED category_str
    /\ UNCHANGED <<build_vars, hdr_vars, ext_vars>>

(***************************************************************************)
(* process_hierarchical_data.  df is the input table: whether a column     *)
(* name contains the category marker, and the category cells in row order. *)
(***************************************************************************)
Categories ==
    {"Total national emissions", "1 Energy", "1.A fuel", "1.B other",
     "some prose note", "1.D.1 International aviation",
     "Memo items: International bunkers", "1.A Total fuels",
     "1.A.1.a.i.2.b.3.c deep"}

RECURSIVE SeqsUpTo(_, _)
SeqsUpTo(S, n) ==
    IF n = 0
    THEN {<<>>}
    ELSE LET shorter == SeqsUpTo(S, n - 1)
         IN  shorter \cup {Append(t, x) : t \in {u \in shorter : Len(u) = n - 1}, x \in S}

EndToEndExample ==
    <<"Total national emissions", "1 Energy", "1.A Fuel combustion",
      "1.A.1 Energy industries", "Memo items: International bunkers">>

Tables == SeqsUpTo(Categories, MaxRows) \cup {EndToEndExample}

None == <<>>

NoParts ==
    [total_df |-> <<>>, sector_df |-> <<>>, subsector_df |-> <<>>,
     sub_subsector_df |-> <<>>, sub_sub_subsector_df |-> <<>>,
     level_5_df |-> <<>>, level_6_df |-> <<>>, level_7_df |-> <<>>,
     level_8_df |-> <<>>, memo_df |-> <<>>]

BuildInit ==
    /\ df \in {[has_category_col |-> TRUE, categories |-> t] : t \in Tables}
              \cup {[has_category_col |-> FALSE, categories |-> t] :
                        t \in SeqsUpTo(Categories, 1)}
    /\ pc = "start"
    /\ parsed = <<>>
    /\ i = 0
    /\ current_context = <<>>
    /\ level_names = <<>>
    /\ out = <<>>
    /\ parts = NoParts

BuildIdle ==
    /\ df = [has_category_col |-> FALSE, categories |-> <<>>]
    /\ pc = "idle"
    /\ parsed = <<>>
    /\ i = 0
    /\ current_context = <<>>
    /\ level_names = <<>>
    /\ out = <<>>
    /\ parts = NoParts

\* lines 90-102: find the category column, parse every cell
ParseRows ==
    /\ pc = "start"
    /\ IF ~df.has_category_col
       THEN /\ pc' = "raised"
            /\ UNCHANGED <<parsed, i>>
       ELSE /\ parsed' = [r \in 1..Len(df.categories) |-> get_category(df.categories[r])]
            /\ i' = 1
            /\ pc' = "propagate"
    /\ UNCHANGED <<df, current_context, level_names, out, parts>>
    /\ UNCHANGED <<parse_vars, hdr_vars, ext_vars>>


\* A propagation step that gives a memo row a synthetic path too.
ContextStep_memo_child(p, ctx) ==
    IF p.is_numbered /\ p.levels # <<>>
    THEN [p |-> p, ctx |-> p.levels]
    ELSE IF ~p.is_numbered /\ ~StartsWith(p.label, "Total")
    THEN [p |-> [p EXCEPT !.levels = IF ctx # <<>> THEN ctx \o <<"child">> ELSE <<"1">>],
          ctx |-> ctx]
    ELSE [p |-> p, ctx |-> ctx]

\* A propagation step that makes the row it has just placed the new anchor.
ContextStep_nesting(p, ctx) ==
    IF p.is_numbered /\ p.levels # <<>>
    THEN [p |-> p, ctx |-> p.levels]
    ELSE IF ~p.is_numbered /\ ~StartsWith(p.label, "Total") /\ ~p.is_memo
    THEN LET path == IF ctx # <<>> THEN ctx \o <<"child">> ELSE <<"1">>
         IN  [p |-> [p EXCEPT !.levels = path], ctx |-> path]
    ELSE [p |-> p, ctx |-> ctx]

\* A propagation step that gives no synthetic path.
ContextStep_no_synthetic(p, ctx) ==
    IF p.is_numbered /\ p.levels # <<>>
    THEN [p |-> p, ctx |-> p.levels]
    ELSE [p |-> p, ctx |-> ctx]

\* lines 106-116, the body of the propagation loop for one node p under the
\* context ctx: the node and the context after it
ContextStep(p, ctx) ==
    IF p.is_numbered /\ p.levels # <<>>
    THEN [p |-> p, ctx |-> p.levels]
    ELSE IF ~p.is_numbered /\ ~StartsWith(p.label, "Total") /\ ~p.is_memo
    THEN [p |-> [p EXCEPT !.levels = IF ctx # <<>> THEN ctx \o <<"child">> ELSE <<"1">>],
          ctx |-> ctx]
    ELSE [p |-> p, ctx |-> ctx]

\* lines 105-116: one iteration of the propagation loop
PropagateRow ==
    /\ pc = "propagate"
    /\ i <= Len(parsed)
    /\ LET step == ContextStep(parsed[i], current_context)
       IN  /\ parsed' = [parsed EXCEPT ![i] = step.p]
           /\ current_context' = step.ctx
    /\ i' = i + 1
    /\ UNCHANGED <<df, pc, level_names, out, parts>>
    /\ UNCHANGED <<parse_vars, hdr_vars, ext_vars>>

BaseLevelNames ==
    <<"Sector", "Subsector", "Sub_subsector", "Sub_sub_subsector",
      "Level_5", "Level_6", "Level_7", "Level_8">>

\* Level names that stop at the eight named ones.
LevelNames_capped(max_len) == BaseLevelNames

\* lines 123-127
LevelNames(max_len) ==
    IF max_len > Len(BaseLevelNames)
    THEN BaseLevelNames \o
            [k \in 1..(max_len - Len(BaseLevelNames)) |->
                "Level_" \o ToString(Len(BaseLevelNames) + k)]
    ELSE BaseLevelNames

SetMax(S) == CHOOSE x \in S : \A y \in S : y <= x

\* lines 119-135: the depth columns, Label and Is_Memo; max() of no path raises
BuildFrame ==
    /\ pc = "propagate"
    /\ i > Len(parsed)
    /\ LET lens == {Len(parsed[r].levels) : r \in {q \in 1..Len(parsed) : parsed[q].levels # <<>>}}
       IN  IF lens = {}
           THEN /\ pc' = "raised"
                /\ UNCHANGED <<level_names, out>>
           ELSE LET names == LevelNames(SetMax(lens))
                IN  /\ level_names' = names
                    /\ out' = [r \in 1..Len(parsed) |->
                                [category |-> df.categories[r],
                                 depth |-> [k \in 1..Len(names) |->
                                              IF k <= Len(parsed[r].levels)
                                              THEN <<parsed[r].levels[k]>>
                                              ELSE None],
                                 Label |-> parsed[r].label,
                                 Is_Memo |-> parsed[r].is_memo,
                                 Level |-> ""]]
                    /\ pc' = "classify"
    /\ UNCHANGED <<df, parsed, i, current_context, parts>>
    /\ UNCHANGED <<parse_vars, hdr_vars, ext_vars>>

\* row.get(name): the cell of the named depth column, None without the column
Get(names, row, name) ==
    IF \E k \in 1..Len(names) : names[k] = name
    THEN row.depth[CHOOSE k \in 1..Len(names) : names[k] = name]
    ELSE None

\* Python truth of a cell: None and "" are false
Truthy(cell) == cell # None /\ cell[1] # ""

\* lines 141-160: the Level of one row
LevelOf(names, row) ==
    LET has(name) == Truthy(Get(names, row, name))
    IN  IF StartsWith(row.Label, "Total") THEN "Total"
        ELSE IF has("Sector") /\ ~has("Subsector") THEN "Sector"
        ELSE IF has("Subsector") /\ ~has("Sub_subsector") THEN "Subsector"
        ELSE IF has("Sub_subsector") /\ ~has("Sub_sub_subsector") THEN "Sub-subsector"
        ELSE IF has("Sub_sub_subsector") /\ ~has("Level_5") THEN "Sub-sub-subsector"
        ELSE IF has("Level_5") /\ ~has("Level_6") THEN "Level-5"
        ELSE IF has("Level_6") /\ ~has("Level_7") THEN "Level-6"
        ELSE IF has("Level_7") /\ ~has("Level_8") THEN "Level-7"
        ELSE IF has("Level_8") THEN "Level-8"
        ELSE "Unknown"

\* lines 138-162
ClassifyRows ==
    /\ pc = "classify"
    /\ out' = [r \in 1..Len(out) |-> [out[r] EXCEPT !.Level = LevelOf(level_names, out[r])]]
    /\ pc' = "partition"
    /\ UNCHANGED <<df, parsed, i, current_context, level_names, parts>>
    /\ UNCHANGED <<parse_vars, hdr_vars, ext_vars>>

RECURSIVE Ascending(_)
Ascending(S) ==
    IF S = {}
    THEN <<>>
    ELSE LET m == CHOOSE x \in S : \A y \in S : x <= y
         IN  <<m>> \o Ascending(S \ {m})

\* main_df[main_df['Level'] == level]: the row numbers kept, in table order
MainLevel(rows, level) ==
    Ascending({r \in 1..Len(rows) : ~rows[r].Is_Memo /\ rows[r].Level = level})

\* lines 165-177 and 239: the ten tables returned
Partition(rows) ==
    [total_df |-> MainLevel(rows, "Total"),
     sector_df |-> MainLevel(rows, "Sector"),
     subsector_df |-> MainLevel(rows, "Subsector"),
     sub_subsector_df |-> MainLevel(rows, "Sub-subsector"),
     sub_sub_subsector_df |-> MainLevel(rows, "Sub-sub-subsector"),
     level_5_df |-> MainLevel(rows, "Level-5"),
     level_6_df |-> MainLevel(rows, "Level-6"),
     level_7_df |-> MainLevel(rows, "Level-7"),
     level_8_df |-> MainLevel(rows, "Level-8"),
     memo_df |-> Ascending({r \in 1..Len(rows) : rows[r].Is_Memo})]

PartitionRows ==
    /\ pc = "partition"
    /\ parts' = Partition(out)
    /\ pc' = "done"
    /\ UNCHANGED <<df, parsed, i, current_context, level_names, out>>
    /\ UNCHANGED <<parse_vars, hdr_vars, ext_vars>>


(***************************************************************************)
(* detect_header_rows.  A sheet is a tuple of rows, a row a tuple of       *)
(* cells; a cell is None (NaN, an empty cell) or <<text>>.  Row indices    *)
(* are 0-based as in the code.                                             *)
(***************************************************************************)
DefaultLookahead == 15

UpperCase == <<"A", "B", "C", "D", "E", "F", "G", "H", "I", "J", "K", "L", "M",
               "N", "O", "P", "Q", "R", "S", "T", "U", "V", "W", "X", "Y", "Z">>
LowerCase == <<"a", "b", "c", "d", "e", "f", "g", "h", "i", "j", "k", "l", "m",
               "n", "o", "p", "q", "r", "s", "t", "u", "v", "w", "x", "y", "z">>

\* str.lower()
RECURSIVE Lower(_)
Lower(s) ==
    IF Len(s) = 0
    THEN s
    ELSE LET c == CharAt(s, 1)
             lc == IF \E k \in 1..Len(UpperCase) : UpperCase[k] = c
                   THEN LowerCase[CHOOSE k \in 1..Len(UpperCase) : UpperCase[k] = c]
                   ELSE c
         IN  lc \o Lower(SubSeq(s, 2, Len(s)))

\* line 35: anchor and anchor.lower() in cell_str
AnchorIn(anc, cell) ==
    /\ cell # None
    /\ anc # None /\ anc[1] # ""
    /\ Contains(Lower(cell[1]), Lower(anc[1]))

\* line 40: keywords and any(k.lower() in cell_str for k in keywords)
KeywordIn(kws, cell) ==
    /\ cell # None
    /\ kws # None
    /\ \E k \in 1..Len(kws[1]) : Contains(Lower(cell[1]), Lower(kws[1][k]))

\* A cell test in which a keyword counts only when no anchor was given.
CellMatches_anchor_only(anc, kws, cell) ==
    IF anc # None /\ anc[1] # "" THEN AnchorIn(anc, cell) ELSE KeywordIn(kws, cell)

\* lines 28-42: the cell ends the scan of its row with a match
CellMatches(anc, kws, cell) == AnchorIn(anc, cell) \/ KeywordIn(kws, cell)

\* lines 26-42: some cell of the row matches
RowMatches(anc, kws, row) == \E c \in 1..Len(row) : CellMatches(anc, kws, row[c])

AnchorCell == <<"GREENHOUSE GAS SOURCE AND SINK CATEGORIES">>
KeywordCell == <<"Net CO2 emissions">>
TitleCell == <<"Table 10 emission trends">>

SheetRows ==
    {<<None, None>>, <<TitleCell, None>>, <<None, KeywordCell>>,
     <<AnchorCell, None>>, <<AnchorCell, KeywordCell>>}

Sheets == SeqsUpTo(SheetRows, MaxSheetRows)

Anchors == {None, <<"greenhouse gas source">>, <<"Summary">>}
KeywordLists == {None, <<<<>>>>, <<<<"co2", "CH4">>>>}
Lookaheads == {1, 2, DefaultLookahead}

HdrInit ==
    /\ sheet \in Sheets
    /\ anchor \in Anchors
    /\ keywords \in KeywordLists
    /\ lookahead \in Lookaheads
    /\ preview = <<>>
    /\ row_i = 0
    /\ target_row = None
    /\ header_rows = <<>>
    /\ hdr_pc = "start"

HdrIdle ==
    /\ sheet = <<>>
    /\ anchor = None
    /\ keywords = None
    /\ lookahead = DefaultLookahead
    /\ preview = <<>>
    /\ row_i = 0
    /\ target_row = None
    /\ header_rows = <<>>
    /\ hdr_pc = "idle"

\* A read that ignores nrows and previews the whole sheet.
ReadPreview_whole_sheet ==
    /\ hdr_pc = "start"
    /\ preview' = sheet
    /\ row_i' = 0
    /\ hdr_pc' = "scan"
    /\ UNCHANGED <<sheet, anchor, keywords, lookahead, target_row, header_rows>>
    /\ UNCHANGED <<parse_vars, build_vars, ext_vars>>

\* lines 20-21: read the first lookahead rows
ReadPreview ==
    /\ hdr_pc = "start"
    /\ preview' = SubSeq(sheet, 1, IF Len(sheet) < lookahead THEN Len(sheet) ELSE lookahead)
    /\ row_i' = 0
    /\ hdr_pc' = "scan"
    /\ UNCHANGED <<sheet, anchor, keywords, lookahead, target_row, header_rows>>
    /\ UNCHANGED <<parse_vars, build_vars, ext_vars>>

\* lines 24-45: one row of the scan
ScanRow ==
    /\ hdr_pc = "scan"
    /\ row_i < Len(preview)
    /\ IF RowMatches(anchor, keywords, preview[row_i + 1])
       THEN /\ target_row' = <<row_i>>
            /\ hdr_pc' = "found"
            /\ UNCHANGED row_i
       ELSE /\ row_i' = row_i + 1
            /\ UNCHANGED <<target_row, hdr_pc>>
    /\ UNCHANGED <<sheet, anchor, keywords, lookahead, preview, header_rows>>
    /\ UNCHANGED <<parse_vars, build_vars, ext_vars>>

\* lines 47-48: no row matched
RaiseNoHeader ==
    /\ hdr_pc = "scan"
    /\ row_i = Len(preview)
    /\ target_row = None
    /\ hdr_pc' = "raised"
    /\ UNCHANGED <<sheet, anchor, keywords, lookahead, preview, row_i, target_row, header_rows>>
    /\ UNCHANGED <<parse_vars, build_vars, ext_vars>>

\* line 51: list(range(target_row, target_row + 2))
ReturnHeaderRows ==
    /\ hdr_pc = "found"
    /\ header_rows' = <<target_row[1], target_row[1] + 1>>
    /\ hdr_pc' = "returned"
    /\ UNCHANGED <<sheet, anchor, keywords, lookahead, preview, row_i, target_row>>
    /\ UNCHANGED <<parse_vars, build_vars, ext_vars>>

(***************************************************************************)
(* extract_year_from_filename: one call on one file name.  The result is   *)
(* the returned pair; a component is None or a one-element tuple.          *)
(***************************************************************************)
\* os.path.splitext(p)[0] of a name without directory: the text before the
\* last dot, unless only dots precede it
SplitExt(p) ==
    LET dots == {k \in 1..Len(p) : CharAt(p, k) = "."}
    IN  IF dots = {}
        THEN p
        ELSE LET last == CHOOSE k \in dots : \A m \in dots : m <= k
             IN  IF \E k \in 1..(last - 1) : CharAt(p, k) # "."
                 THEN SubSeq(p, 1, last - 1)
                 ELSE p

DigitVal(c) == CHOOSE d \in 0..9 : ToString(d) = c

\* the value of a run of decimal digits with '_' separators
RECURSIVE DecValue(_)
DecValue(s) ==
    IF Len(s) = 0
    THEN 0
    ELSE LET c == CharAt(s, Len(s))
             rest == SubSeq(s, 1, Len(s) - 1)
         IN  IF c = "_" THEN DecValue(rest) ELSE 10 * DecValue(rest) + DigitVal(c)

\* int(s): surrounding whitespace, one sign, digits with single '_' between
\* digits; None stands for ValueError
IntOf(s) ==
    LET t == Strip(s, Whitespace)
        signed == Len(t) > 0 /\ CharAt(t, 1) \in {"+", "-"}
        u == IF signed THEN SubSeq(t, 2, Len(t)) ELSE t
        ok == /\ Len(u) > 0
              /\ \A k \in 1..Len(u) : CharAt(u, k) \in Digits \cup {"_"}
              /\ CharAt(u, 1) # "_"
              /\ CharAt(u, Len(u)) # "_"
              /\ \A k \in 1..(Len(u) - 1) :
                    ~(CharAt(u, k) = "_" /\ CharAt(u, k + 1) = "_")
    IN  IF ~ok THEN None
        ELSE IF signed /\ CharAt(t, 1) = "-" THEN <<0 - DecValue(u)>>
        ELSE <<DecValue(u)>>

NoPair == [country_code |-> None, year |-> None, exc |-> "none"]

\* A parser that keeps the country code when the year does not parse.
extract_year_from_filename_partial(name) ==
    LET basename == SplitExt(name)
        segs == Split(basename, "-")
    IN  IF Len(segs) >= 5
        THEN [country_code |-> <<segs[1]>>, year |-> IntOf(segs[5]),
              exc |-> "none"]
        ELSE NoPair

\* lines 194-210: exc names an exception that leaves the function
extract_year_from_filename(name) ==
    LET basename == SplitExt(name)
        segs == Split(basename, "-")
    IN  IF Len(segs) >= 5
        THEN IF IntOf(segs[5]) = None
             THEN NoPair                        \* ValueError of int(), caught
             ELSE [country_code |-> <<segs[1]>>, year |-> IntOf(segs[5]),
                   exc |-> "none"]
        ELSE NoPair                             \* ValueError raised, caught

CountryCodes == {"GBR", "deu", ""}
VersionSegs == {"V0.6", "V1"}
YearSegs ==
    {"1990", "2023", " 1991", "1_990", "+5", "007", "0", "19x0", "",
     "V0.6", "1990.5", "_1990"}
Extensions == {".xlsx", ""}

\* the k-th segment of an export name
NameSeg(k, c, v, y) ==
    IF k = 1 THEN c
    ELSE IF k = 2 THEN "CRT"
    ELSE IF k = 3 THEN "2025"
    ELSE IF k = 4 THEN v
    ELSE IF k = 5 THEN y
    ELSE IF k = 6 THEN "20250415"
    ELSE "091720"

RECURSIVE JoinDash(_)
JoinDash(segs) ==
    IF Len(segs) = 0 THEN ""
    ELSE IF Len(segs) = 1 THEN segs[1]
    ELSE segs[1] \o "-" \o JoinDash(Tail(segs))

FileNames ==
    {JoinDash([k \in 1..n |-> NameSeg(k, c, v, y)]) \o x :
        n \in 1..MaxNameSegs, c \in CountryCodes, v \in VersionSegs,
        y \in YearSegs, x \in Extensions}

NameInit ==
    /\ filename \in FileNames
    /\ name_result = NoPair
    /\ name_pc = "call"

NameIdle ==
    /\ filename = ""
    /\ name_result = NoPair
    /\ name_pc = "idle"

\* the call extract_year_from_filename(filename)
ExtractYear ==
    /\ name_pc = "call"
    /\ name_result' = extract_year_from_filename(filename)
    /\ name_pc' = IF extract_year_from_filename(filename).exc = "none"
                  THEN "return" ELSE "raised"
    /\ UNCHANGED filename
    /\ UNCHANGED name_frame

(***************************************************************************)
(* save_gas_level_parquet: one call on one partition.  A partition is its  *)
(* set of column names and its rows in table order; the gas cell of a row  *)
(* is None (missing) or a one-element tuple.  The file system is the set   *)
(* of directories and the set of files, a file being dir, name, content.   *)
(***************************************************************************)
PivotYears == {1990, 1991}
PivotLabels == {"Energy", "Waste"}
GasValues == {None, <<1>>, <<2>>}
GasColumns == {"CO2 emissions", "CH4"}

\* the rows of the group (y, l), as row numbers in table order
GroupRows(rows, y, l) ==
    {r \in 1..Len(rows) : rows[r].Year = y /\ rows[r].Label = l}

\* aggfunc='last': the last non-missing value of a group
agg_last(rows, y, l) ==
    LET present == {r \in GroupRows(rows, y, l) : rows[r].gas # None}
    IN  IF present = {} THEN None ELSE rows[SetMax(present)].gas

\* aggfunc='first': the first non-missing value of a group, None without one
agg_first(rows, y, l) ==
    LET present == {r \in GroupRows(rows, y, l) : rows[r].gas # None}
    IN  IF present = {}
        THEN None
        ELSE rows[CHOOSE r \in present : \A q \in present : r <= q].gas

\* the years in order of first appearance
RECURSIVE AppearanceOrder(_, _)
AppearanceOrder(rows, S) ==
    IF Len(rows) = 0
    THEN <<>>
    ELSE LET y == rows[Len(rows)].Year
             before == AppearanceOrder(SubSeq(rows, 1, Len(rows) - 1), S)
         IN  IF y \in S /\ \A k \in 1..Len(before) : before[k] # y
             THEN Append(before, y)
             ELSE before

\* A pivot whose index keeps the order of first appearance.
pivot_table_unsorted(rows) ==
    LET groups == {<<rows[r].Year, rows[r].Label>> : r \in 1..Len(rows)}
        kept == {g \in groups : agg_first(rows, g[1], g[2]) # None}
    IN  [index |-> AppearanceOrder(rows, {g[1] : g \in kept}),
         columns |-> {g[2] : g \in kept},
         cells |-> {<<g[1], g[2], agg_first(rows, g[1], g[2])[1]>> : g \in kept}]

\* lines 59-61: pivot_table(index, columns, values, aggfunc='first') with
\* dropna left True, then sort_index(): groups without a value are dropped
\* before the table is laid out
pivot_table(rows) ==
    LET groups == {<<rows[r].Year, rows[r].Label>> : r \in 1..Len(rows)}
        kept == {g \in groups : agg_first(rows, g[1], g[2]) # None}
    IN  [index |-> Ascending({g[1] : g \in kept}),
         columns |-> {g[2] : g \in kept},
         cells |-> {<<g[1], g[2], agg_first(rows, g[1], g[2])[1]>> : g \in kept}]

\* the file written last under dir/name replaces an earlier one
WriteFile(fs, dir, name, content) ==
    [dirs |-> fs.dirs \cup {dir},
     files |-> {f \in fs.files : ~(f.dir = dir /\ f.name = name)}
                  \cup {[dir |-> dir, name |-> name, content |-> content]}]

\* lines 35-53: the gas type is the first word of the column name in lower
\* case; the mapping of line 38 has upper-case keys, so it maps none
GasType(gas_col) == Lower(Split(Strip(gas_col, Whitespace), " ")[1])

NewFilename(name, gas_col) ==
    SplitExt(name) \o "_" \o GasType(gas_col) \o ".parquet"

\* A pivoter that pivots first and writes before it looks for the column.
save_gas_level_parquet_write_first(table, gas_col, path, fs) ==
    WriteFile(fs, path.dir, NewFilename(path.name, gas_col),
              pivot_table(IF gas_col \in table.columns
                          THEN table.rows ELSE <<>>))

\* lines 26-65: the file system after the call
save_gas_level_parquet(table, gas_col, path, fs) ==
    IF gas_col \notin table.columns
    THEN fs
    ELSE WriteFile(fs, path.dir, NewFilename(path.name, gas_col),
                   pivot_table(table.rows))

PivotRows ==
    {[Year |-> y, Label |-> l, gas |-> v] :
        y \in PivotYears, l \in PivotLabels, v \in GasValues}

PivotTables ==
    {[columns |-> {"Year", "Label", "CO2 emissions"}, rows |-> t] :
        t \in SeqsUpTo(PivotRows, MaxPivotRows)}

OldPivot == [index |-> <<1989>>, columns |-> {"Energy"}, cells |-> {<<1989, "Energy", 7>>}]

TotalPath == [dir |-> "out/total", name |-> "gbr_Summary2_1990_total.parquet"]

PivotFileSystems ==
    {[dirs |-> {}, files |-> {}],
     [dirs |-> {"out/total"}, files |-> {}],
     [dirs |-> {"out/total"},
      files |-> {[dir |-> "out/total",
                  name |-> "gbr_Summary2_1990_total_co2.parquet",
                  content |-> OldPivot]}]}

PivotInit ==
    /\ pv_df \in PivotTables
    /\ pv_gas \in GasColumns
    /\ pv_path = TotalPath
    /\ pv_fs \in PivotFileSystems
    /\ pv_pc = "call"

PivotIdle ==
    /\ pv_df = [columns |-> {}, rows |-> <<>>]
    /\ pv_gas = ""
    /\ pv_path = TotalPath
    /\ pv_fs = [dirs |-> {}, files |-> {}]
    /\ pv_pc = "idle"

\* the call save_gas_level_parquet(pv_df, pv_gas, pv_path)
SaveGasLevelParquet ==
    /\ pv_pc = "call"
    /\ pv_fs' = save_gas_level_parquet(pv_df, pv_gas, pv_path, pv_fs)
    /\ pv_pc' = "returned"
    /\ UNCHANGED <<pv_df, pv_gas, pv_path>>
    /\ UNCHANGED pivot_frame

(***************************************************************************)
(* load_country_data: one execution of the function body for one country   *)
(* code.  A table is the sequence of its rows; a loaded level is None or a *)
(* one-element tuple holding the table.                                    *)
(***************************************************************************)
\* str.endswith(suffix)
EndsWith(s, suffix) ==
    /\ Len(s) >= Len(suffix)
    /\ SubSeq(s, Len(s) - Len(suffix) + 1, Len(s)) = suffix

\* line 18: the keys of data_dict in order
LevelKeys == <<"Total", "Sectors", "Subsectors", "Sub-subsectors">>

\* lines 16, 25
LevelPath(code, level) == "data/processed_data/" \o code \o "/" \o Lower(level)

\* A glob that takes every file of the directory.
Glob_every_file(fs, dir) == {f \in fs.files : f.dir = dir}

\* line 27: glob.glob(os.path.join(level_path, "*.parquet"))
Glob(fs, dir) ==
    {f \in fs.files : f.dir = dir /\ EndsWith(f.name, ".parquet")
                        /\ CharAt(f.name, 1) # "."}

\* the orders in which glob may list a set of files
FileOrders(files) ==
    {o \in [1..Cardinality(files) -> files] :
        \A j, k \in 1..Cardinality(files) : j # k => o[j] # o[k]}

\* pd.concat of the tables of a list of files
RECURSIVE Concat(_)
Concat(order) ==
    IF Len(order) = 0
    THEN <<>>
    ELSE order[1].content \o Concat(Tail(order))

\* what a level directory of the test trees holds
DirKinds == {"missing", "empty", "csv only", "one parquet", "two parquet"}

DirFiles(dir, kind) ==
    LET csv == [dir |-> dir, name |-> "notes.csv", content |-> <<"c1">>]
        bak == [dir |-> dir, name |-> "old.parquet.bak", content |-> <<"b1">>]
        one == [dir |-> dir, name |-> "gbr_combined.parquet",
                content |-> <<"r1", "r2">>]
        two == [dir |-> dir, name |-> "gbr_Summary2_1990.parquet",
                content |-> <<"r2">>]
    IN  IF kind = "csv only" THEN {csv, bak}
        ELSE IF kind = "one parquet" THEN {one}
        ELSE IF kind = "two parquet" THEN {csv, one, two}
        ELSE {}

\* the trees: data for GBR only, each level directory of one kind
LoaderTrees ==
    {[dirs |-> {LevelPath("GBR", LevelKeys[k]) :
                    k \in {j \in 1..Len(LevelKeys) : kinds[j] # "missing"}},
      files |-> UNION {DirFiles(LevelPath("GBR", LevelKeys[k]), kinds[k]) :
                          k \in 1..Len(LevelKeys)}] :
        kinds \in [1..Len(LevelKeys) -> DirKinds]}

NoData == [Total |-> None, Sectors |-> None, Subsectors |-> None,
           Sub_subsectors |-> None]

\* data_dict[level] = table
SetLevel(dict, k, table) ==
    IF k = 1 THEN [dict EXCEPT !.Total = table]
    ELSE IF k = 2 THEN [dict EXCEPT !.Sectors = table]
    ELSE IF k = 3 THEN [dict EXCEPT !.Subsectors = table]
    ELSE [dict EXCEPT !.Sub_subsectors = table]

GetLevel(dict, k) ==
    IF k = 1 THEN dict.Total
    ELSE IF k = 2 THEN dict.Sectors
    ELSE IF k = 3 THEN dict.Subsectors
    ELSE dict.Sub_subsectors

LoadInit ==
    /\ ld_fs \in LoaderTrees
    /\ country_code \in {"GBR", "FRA"}
    /\ ld_k = 1
    /\ data_dict = NoData
    /\ ld_pc = "loop"

LoadIdle ==
    /\ ld_fs = [dirs |-> {}, files |-> {}]
    /\ country_code = ""
    /\ ld_k = 1
    /\ data_dict = NoData
    /\ ld_pc = "idle"

\* lines 24-29: one iteration of the loop over the levels
LoadLevel ==
    /\ ld_pc = "loop"
    /\ ld_k <= Len(LevelKeys)
    /\ LET level_path == LevelPath(country_code, LevelKeys[ld_k])
           files == Glob(ld_fs, level_path)
       IN  IF level_path \in ld_fs.dirs /\ files # {}
           THEN \E order \in FileOrders(files) :
                    data_dict' = SetLevel(data_dict, ld_k, <<Concat(order)>>)
           ELSE UNCHANGED data_dict
    /\ ld_k' = ld_k + 1
    /\ UNCHANGED <<ld_fs, country_code, ld_pc>>
    /\ UNCHANGED load_frame

\* line 31
ReturnDataDict ==
    /\ ld_pc = "loop"
    /\ ld_k > Len(LevelKeys)
    /\ ld_pc' = "returned"
    /\ UNCHANGED <<ld_fs, country_code, ld_k, data_dict>>
    /\ UNCHANGED load_frame

(***************************************************************************)
(* process_summary_sheet: invocations on one input folder and one output   *)
(* tree.  A workbook is its file name, the text of the cell that heads its *)
(* category column and its category cells in row order; defect and expect  *)
(* describe the workbook and are not read by the actions.  A table is the  *)
(* bag of its rows, since glob fixes no order for pd.concat.               *)
(***************************************************************************)
\* the ten tables of process_hierarchical_data for a table with the
\* category column, as row numbers; raised when max() of line 120 has no path
RECURSIVE PropagateAll(_, _)
PropagateAll(nodes, ctx) ==
    IF Len(nodes) = 0
    THEN <<>>
    ELSE LET step == ContextStep(nodes[1], ctx)
         IN  <<step.p>> \o PropagateAll(Tail(nodes), step.ctx)

process_hierarchical_data(cats) ==
    LET nodes == PropagateAll([r \in 1..Len(cats) |-> get_category(cats[r])], <<>>)
        lens == {Len(nodes[r].levels) : r \in {q \in 1..Len(nodes) : nodes[q].levels # <<>>}}
    IN  IF lens = {}
        THEN [raised |-> TRUE, parts |-> NoParts]
        ELSE LET names == LevelNames(SetMax(lens))
                 frame == [r \in 1..Len(nodes) |->
                            [category |-> cats[r],
                             depth |-> [k \in 1..Len(names) |->
                                          IF k <= Len(nodes[r].levels)
                                          THEN <<nodes[r].levels[k]>>
                                          ELSE None],
                             Label |-> nodes[r].label,
                             Is_Memo |-> nodes[r].is_memo,
                             Level |-> ""]]
                 rows == [r \in 1..Len(frame) |->
                            [frame[r] EXCEPT !.Level = LevelOf(names, frame[r])]]
             IN  [raised |-> FALSE, parts |-> Partition(rows)]

\* line 42
levels ==
    <<"total", "sectors", "subsectors", "sub_subsectors", "sub_sub_subsectors",
      "level_5", "level_6", "level_7", "level_8", "memo_items">>

\* lines 143-154: level_dfs[level]
LevelDf(tables, level) ==
    IF level = "total" THEN tables.total_df
    ELSE IF level = "sectors" THEN tables.sector_df
    ELSE IF level = "subsectors" THEN tables.subsector_df
    ELSE IF level = "sub_subsectors" THEN tables.sub_subsector_df
    ELSE IF level = "sub_sub_subsectors" THEN tables.sub_sub_subsector_df
    ELSE IF level = "level_5" THEN tables.level_5_df
    ELSE IF level = "level_6" THEN tables.level_6_df
    ELSE IF level = "level_7" THEN tables.level_7_df
    ELSE IF level = "level_8" THEN tables.level_8_df
    ELSE tables.memo_df

CountryName == "GBR"                    \* os.path.basename(folder_path)
OutputFolder == "data/processed_data"   \* the output_folder the dashboard reads
CountryOutput == OutputFolder \o "/" \o CountryName  \* line 45

\* line 217
LevelDir(level) == CountryOutput \o "/" \o level

\* line 221
CombinedName(level) == CountryName \o "_" \o level \o "_combined.parquet"

\* lines 139, 162
YearFileName(code, sheetname, year, level) ==
    Lower(code) \o "_" \o sheetname \o "_" \o ToString(year) \o "_" \o level
        \o ".parquet"

CategoryColumn == "GREENHOUSE GAS SOURCE AND SINK CATEGORIES"   \* line 79
SheetAnchor == <<"GREENHOUSE GAS SOURCE">>                      \* line 62

\* the exceptions that `except Exception` of line 209 catches
CaughtExceptions == {"ValueError", "TypeError", "IndexError", "KeyError"}

\* lines 157-164: the per-level files of one workbook, empty tables left out
YearFiles(f, sheetname, code, year, tables) ==
    {[dir |-> LevelDir(levels[k]),
      name |-> YearFileName(code, sheetname, year, levels[k]),
      content |-> SetToBag({[Source |-> f.name, Sheet |-> sheetname,
                             Year |-> year,
                             Category |-> f.categories[LevelDf(tables, levels[k])[j]]] :
                               j \in 1..Len(LevelDf(tables, levels[k]))})] :
        k \in {q \in 1..Len(levels) : Len(LevelDf(tables, levels[q])) > 0}}

\* lines 59-207, the body of the try for one workbook: the exception that
\* ends it ("none" without one, "continue" for the skip of line 117) and
\* the files written before
TryFile(f, sheetname) ==
    IF ~RowMatches(SheetAnchor, None, <<f.header>>)
    THEN [exc |-> "ValueError", step |-> "header", written |-> {}]
    ELSE IF ~Contains(f.header[1], CategoryColumn)
    THEN [exc |-> "ValueError", step |-> "category", written |-> {}]
    ELSE LET pair == extract_year_from_filename(f.name)
         IN  IF pair.country_code = None \/ pair.country_code[1] = ""
                   \/ pair.year = None \/ pair.year[1] = 0
             THEN [exc |-> "continue", step |-> "filename", written |-> {}]
             ELSE LET h == process_hierarchical_data(f.categories)
                  IN  IF h.raised
                      THEN [exc |-> "ValueError", step |-> "hierarchy",
                            written |-> {}]
                      ELSE \* line 196: save_gas_level_parquet has no
                           \* parameter save_csv
                           [exc |-> "TypeError", step |-> "gas",
                            written |-> YearFiles(f, sheetname,
                                                  pair.country_code[1],
                                                  pair.year[1], h.parts)]

RECURSIVE WriteAll(_, _)
WriteAll(fs, files) ==
    IF files = {}
    THEN fs
    ELSE LET f == CHOOSE x \in files : TRUE
         IN  WriteAll(WriteFile(fs, f.dir, f.name, f.content), files \ {f})

\* the sum of the tables of a set of files
RECURSIVE ConcatBags(_)
ConcatBags(files) ==
    IF files = {}
    THEN EmptyBag
    ELSE LET f == CHOOSE x \in files : TRUE
         IN  f.content (+) ConcatBags(files \ {f})

\* A combine step that removes only the per-year files it has read.
CombineLevel_keep_combined(fs, level) ==
    LET parquet_files == Glob(fs, LevelDir(level))
    IN  IF parquet_files = {}
        THEN fs
        ELSE LET written == WriteFile(fs, LevelDir(level), CombinedName(level),
                                      ConcatBags(parquet_files))
             IN  [written EXCEPT !.files =
                    {f \in written.files :
                        f \notin parquet_files \/ f.name = CombinedName(level)}]

\* A combine step that removes no file.
CombineLevel_keep_years(fs, level) ==
    LET parquet_files == Glob(fs, LevelDir(level))
    IN  IF parquet_files = {}
        THEN fs
        ELSE WriteFile(fs, LevelDir(level), CombinedName(level),
                       ConcatBags(parquet_files))

\* lines 217-233 for one level: concat what glob lists, write the combined
\* file, then remove every file that glob listed
CombineLevel(fs, level) ==
    LET parquet_files == Glob(fs, LevelDir(level))
    IN  IF parquet_files = {}
        THEN fs
        ELSE LET written == WriteFile(fs, LevelDir(level), CombinedName(level),
                                      ConcatBags(parquet_files))
             IN  [written EXCEPT !.files =
                    {f \in written.files :
                        \A g \in parquet_files :
                            ~(g.dir = f.dir /\ g.name = f.name)}]

RECURSIVE CombineFrom(_, _)
CombineFrom(fs, k) ==
    IF k > Len(levels) THEN fs ELSE CombineFrom(CombineLevel(fs, levels[k]), k + 1)

GoodHeader == <<CategoryColumn>>
LowerHeader == <<"Greenhouse gas source and sink categories">>

FullTable ==
    <<"Total national emissions", "1. Energy", "1.A Fuel combustion",
      "Memo items: International bunkers">>

Workbooks ==
    {[name |-> "GBR-CRT-2025-V0.6-1990-20250415.xlsx", header |-> GoodHeader,
      categories |-> FullTable, defect |-> "none",
      expect |-> <<"total", "sectors", "subsectors", "memo_items">>],
     [name |-> "GBR-CRT-2025-V0.6-1991-20250415.xlsx", header |-> GoodHeader,
      categories |-> <<"1. Energy", "some prose note",
                       "1.A.1 Energy industries">>,
      defect |-> "none",
      expect |-> <<"sectors", "subsectors", "sub_subsectors">>],
     [name |-> "GBR-CRT-2025-V0.6-1992-20250415.xlsx", header |-> TitleCell,
      categories |-> FullTable, defect |-> "header",
      expect |-> <<>>],
     [name |-> "GBR-CRT-2025-V0.6-1993-20250415.xlsx", header |-> LowerHeader,
      categories |-> FullTable, defect |-> "category",
      expect |-> <<>>],
     [name |-> "GBR-CRT-1994.xlsx", header |-> GoodHeader,
      categories |-> FullTable, defect |-> "filename",
      expect |-> <<>>],
     [name |-> "GBR-CRT-2025-V0.6-0-20250415.xlsx", header |-> GoodHeader,
      categories |-> FullTable, defect |-> "filename",
      expect |-> <<>>],
     [name |-> "GBR-CRT-2025-V0.6-1995-20250415.xlsx", header |-> GoodHeader,
      categories |-> <<"Total national emissions",
                       "Memo items: International bunkers">>,
      defect |-> "no path",
      expect |-> <<>>]}

SheetNames == {"Summary2", "Table10s1"}

EmptyTree == [dirs |-> {}, files |-> {}]

SheetInit ==
    /\ batch \in {b \in SUBSET Workbooks : Cardinality(b) <= MaxFiles}
    /\ sheet_name = ""
    /\ pending = {}
    /\ out_fs = EmptyTree
    /\ log = {}
    /\ runs = 0
    /\ first_fs = EmptyTree
    /\ sh_pc = "idle"

SheetIdle ==
    /\ batch = {}
    /\ sheet_name = ""
    /\ pending = {}
    /\ out_fs = EmptyTree
    /\ log = {}
    /\ runs = 0
    /\ first_fs = EmptyTree
    /\ sh_pc = "off"

\* lines 24-58: a call of process_summary_sheet on the input folder; the
\* level directories are made and glob lists the workbooks
StartRun ==
    /\ sh_pc \in {"idle", "done"}
    /\ runs < MaxRuns
    /\ \E s \in SheetNames : sheet_name' = s
    /\ runs' = runs + 1
    /\ out_fs' = [out_fs EXCEPT !.dirs =
                     @ \cup {LevelDir(levels[k]) : k \in 1..Len(levels)}]
    /\ pending' = batch
    /\ log' = {}
    /\ sh_pc' = "files"
    /\ UNCHANGED <<batch, first_fs>>
    /\ UNCHANGED sheet_frame

\* An iteration whose caught exception also ends the loop over the workbooks.
ProcessFile_stop_on_error ==
    /\ sh_pc = "files"
    /\ \E f \in pending :
          LET t == TryFile(f, sheet_name)
          IN  /\ out_fs' = WriteAll(out_fs, t.written)
              /\ pending' = IF t.written = {} THEN {} ELSE pending \ {f}
              /\ log' = log \cup {<<f.name, t.step>>}
              /\ sh_pc' = "files"
    /\ UNCHANGED <<batch, sheet_name, runs, first_fs>>
    /\ UNCHANGED sheet_frame

\* lines 58-210: the iteration of the loop for one workbook, in the order
\* glob lists them
ProcessFile ==
    /\ sh_pc = "files"
    /\ \E f \in pending :
          LET t == TryFile(f, sheet_name)
          IN  /\ out_fs' = WriteAll(out_fs, t.written)
              /\ pending' = pending \ {f}
              /\ log' = log \cup {<<f.name, t.step>>}
              /\ sh_pc' = IF t.exc \in CaughtExceptions \cup {"none", "continue"}
                          THEN "files"
                          ELSE "raised"
    /\ UNCHANGED <<batch, sheet_name, runs, first_fs>>
    /\ UNCHANGED sheet_frame

\* lines 216-259: the combine steps.  No gas directory holds a file, since
\* every call of line 196 raises, so the loop of lines 237-257 finds none.
CombineYears ==
    /\ sh_pc = "files"
    /\ pending = {}
    /\ out_fs' = CombineFrom(out_fs, 1)
    /\ first_fs' = IF runs = 1 THEN CombineFrom(out_fs, 1) ELSE first_fs
    /\ sh_pc' = "done"
    /\ UNCHANGED <<batch, sheet_name, pending, log, runs>>
    /\ UNCHANGED sheet_frame

\* the rows of a written table as pd.read_parquet gives them to the loader
RECURSIVE BagRows(_)
BagRows(b) ==
    IF BagToSet(b) = {}
    THEN <<>>
    ELSE LET x == CHOOSE y \in BagToSet(b) : TRUE
         IN  <<x>> \o BagRows(b (-) SetToBag({x}))

\* data_loader.py lines 122-125: the dashboard calls load_country_data for a
\* country folder of data/processed_data, here after an invocation of the
\* processor has returned
PreloadCountry ==
    /\ sh_pc = "done"
    /\ ld_pc = "idle"
    /\ ld_fs' = [out_fs EXCEPT !.files =
                    {[dir |-> g.dir, name |-> g.name,
                      content |-> BagRows(g.content)] : g \in out_fs.files}]
    /\ country_code' = CountryName
    /\ ld_k' = 1
    /\ data_dict' = NoData
    /\ ld_pc' = "loop"
    /\ UNCHANGED sheet_vars
    /\ UNCHANGED <<parse_vars, build_vars, hdr_vars, name_vars, pivot_vars, read_vars>>

(***************************************************************************)
(* read_excel_with_detected_header: flattening of the stacked header rows  *)
(* and absorption of a unit row (header_detector.py).                      *)
(*                                                                         *)
(* A cell is None (NaN) or <<text>>.  The entries of the two keyword lists *)
(* that hold a non-ASCII character are left out: no cell enumerated here   *)
(* holds one, so none of them can occur in a cell.                         *)
(***************************************************************************)
\* pd.notna(part)
NotNa(cell) == cell # None

\* str(part): NaN prints as 'nan'
Str(cell) == IF cell = None THEN "nan" ELSE cell[1]

\* ' '.join(parts)
RECURSIVE JoinSpace(_)
JoinSpace(ps) ==
    IF Len(ps) = 0 THEN ""
    ELSE IF Len(ps) = 1 THEN ps[1]
    ELSE ps[1] \o " " \o JoinSpace(Tail(ps))

\* the adjacent literals 'NCV/GCV (5)' '(kt)' of the source are one string
relevant_keywords ==
    {"SINK CATEGORIES", "SOURCE", "EMISSION", "ACTIVITY", "FACTOR",
     "CO2", "CH4", "N2O", "SF6", "HFC", "PFC", "NF3", "NF",
     "NO", "NMVOC", "CO", "SO",
     "GCV", "NCV", "NCV/GCV", "NCV/GCV (5)(kt)",
     "Mt", "t", "kg",
     "PJ", "(TJ)",
     "(t/TJ)", "(kg/TJ)", "kg/t", "(kg/t)",
     "(kt)", "(Mt)", "(t)", "(kg)", "(PJ)",
     "CO2-eq", "CO2 eq",
     "captured", "transported", "injected", "stored",
     "Reference year", "Base year", "1990", "Change from",
     "NaN"}

\* any(unit in p for unit in relevant_keywords)
IsRelevant(p) == \E unit \in relevant_keywords : Contains(p, unit)

\* [str(part).strip() for part in col if pd.notna(part)]
HeaderParts(c) ==
    LET present == SelectSeq(c, NotNa)
    IN  [k \in 1..Len(present) |-> Strip(Str(present[k]), Whitespace)]

clean_column(c) ==
    LET ps == HeaderParts(c)
        keep_parts == SelectSeq(ps, IsRelevant)
    IN  Strip(JoinSpace(IF Len(keep_parts) = 0 THEN ps ELSE keep_parts), Whitespace)

\* the cells of header rows enumerated
HeaderCells ==
    {None, <<" ">>, <<"Group A">>, <<"Unnamed: 1_level_1">>,
     <<"GREENHOUSE GAS SOURCE AND SINK CATEGORIES">>, <<"CO2">>, <<"(kt)">>,
     <<"Base year">>}

\* the tuples of a MultiIndex: one cell per header row, at least two rows
ColumnTuples ==
    UNION {[1..n -> HeaderCells] : n \in 2..MaxHeaderLevels}

unit_patterns ==
    {"(TJ)", "(kt)", "(Mt)", "(t)", "(kg)", "(PJ)",
     "(t/TJ)", "(kg/TJ)", "(kg/t)",
     "NCV/GCV", "GCV", "NCV",
     "CO2-eq", "CO2 eq", "NCV/GCV (5)"}

Blank == {"NaN", "", "nan"}

\* the test of one value, as both the renaming loop and the row test make it
UnitLike(v) ==
    \/ v \in unit_patterns
    \/ \E pattern \in unit_patterns : Contains(v, pattern)
    \/ Contains(v, "(") /\ Contains(v, ")") /\ Len(v) < 20

\* is_unit and first_val not in ['NaN', '', 'nan'], on first_val = str(cell).strip()
is_unit(cell) ==
    LET first_val == Strip(Str(cell), Whitespace)
    IN  UnitLike(first_val) /\ first_val \notin Blank

\* the body of the loop over df.columns
NewColumnName(col_name, cell) ==
    IF is_unit(cell)
    THEN Strip(col_name \o " " \o Strip(Str(cell), Whitespace), Whitespace)
    ELSE col_name

\* first_row_is_units: NaN cells are skipped, the length is that of str(val)
first_row_is_units(row) ==
    \A k \in 1..Len(row) :
        NotNa(row[k]) =>
            \/ Strip(Str(row[k]), Whitespace) \in (unit_patterns \cup Blank)
            \/ \E pattern \in unit_patterns : Contains(Str(row[k]), pattern)
            \/ /\ Contains(Str(row[k]), "(")
               /\ Contains(Str(row[k]), ")")
               /\ Len(Str(row[k])) < 20

\* the names the flattened frames carry, by position
ColumnNames ==
    <<"GREENHOUSE GAS SOURCE AND SINK CATEGORIES", "CO2", "CH4", "N2O">>

\* the cells of first data rows enumerated
RowCells ==
    {None, <<"">>, <<"NaN">>, <<"(kt)">>, <<"(see note)">>,
     <<"1. Energy">>, <<"5.0">>}

\* df.iloc[0] of the frames enumerated; <<>> stands for len(df) = 0
FirstRows ==
    {<<>>} \cup UNION {[1..n -> RowCells] : n \in 1..MaxCols}

FlattenIdle ==
    /\ col = <<>>
    /\ clean_name = None
    /\ flat_pc = "off"

UnitIdle ==
    /\ df_columns = <<>>
    /\ first_row = <<>>
    /\ new_columns = <<>>
    /\ row_dropped = FALSE
    /\ unit_pc = "off"

ReadIdle == FlattenIdle /\ UnitIdle

FlattenInit ==
    /\ col \in ColumnTuples
    /\ clean_name = None
    /\ flat_pc = "call"

UnitInit ==
    /\ first_row \in FirstRows
    /\ df_columns = SubSeq(ColumnNames, 1, IF first_row = <<>> THEN 1 ELSE Len(first_row))
    /\ new_columns = df_columns
    /\ row_dropped = FALSE
    /\ unit_pc = "start"

\* df.columns = [clean_column(col) for col in df.columns], one column
CleanColumn ==
    /\ flat_pc = "call"
    /\ clean_name' = <<clean_column(col)>>
    /\ flat_pc' = "returned"
    /\ UNCHANGED <<col, df_columns, first_row, new_columns, row_dropped, unit_pc>>
    /\ UNCHANGED read_frame

\* if len(df) > 0 fails: the frame is returned as it is
ReturnEmptyFrame ==
    /\ unit_pc = "start"
    /\ first_row = <<>>
    /\ unit_pc' = "returned"
    /\ UNCHANGED <<col, clean_name, flat_pc, df_columns, first_row, new_columns,
                   row_dropped>>
    /\ UNCHANGED read_frame

\* the loop over df.columns and df.columns = new_columns
RenameColumns ==
    /\ unit_pc = "start"
    /\ first_row # <<>>
    /\ new_columns' = [k \in 1..Len(df_columns) |->
                          NewColumnName(df_columns[k], first_row[k])]
    /\ unit_pc' = "renamed"
    /\ UNCHANGED <<col, clean_name, flat_pc, df_columns, first_row, row_dropped>>
    /\ UNCHANGED read_frame

\* if first_row_is_units: df = df.drop(df.index[0])
DropUnitRow ==
    /\ unit_pc = "renamed"
    /\ row_dropped' = first_row_is_units(first_row)
    /\ unit_pc' = "returned"
    /\ UNCHANGED <<col, clean_name, flat_pc, df_columns, first_row, new_columns>>
    /\ UNCHANGED read_frame

ExtIdle == NameIdle /\ PivotIdle /\ LoadIdle /\ SheetIdle /\ ReadIdle

(***************************************************************************)
(* Specifications.                                                         *)
(***************************************************************************)
Init == BuildInit /\ ParseIdle /\ HdrIdle /\ ExtIdle
Next == ParseRows \/ PropagateRow \/ BuildFrame \/ ClassifyRows \/ PartitionRows
Spec == Init /\ [][Next]_vars

ParserInit == ParseInit /\ BuildIdle /\ HdrIdle /\ ExtIdle
ParserNext == GetCategory
ParserSpec == ParserInit /\ [][ParserNext]_vars

HeaderInit == HdrInit /\ ParseIdle /\ BuildIdle /\ ExtIdle
HeaderNext == ReadPreview \/ ScanRow \/ RaiseNoHeader \/ ReturnHeaderRows
HeaderSpec == HeaderInit /\ [][HeaderNext]_vars

CoreIdle == ParseIdle /\ BuildIdle /\ HdrIdle

FilenameInit == NameInit /\ CoreIdle /\ PivotIdle /\ LoadIdle /\ SheetIdle /\ ReadIdle
FilenameNext == ExtractYear
FilenameSpec == FilenameInit /\ [][FilenameNext]_vars

PivoterInit == PivotInit /\ CoreIdle /\ NameIdle /\ LoadIdle /\ SheetIdle /\ ReadIdle
PivoterNext == SaveGasLevelParquet
PivoterSpec == PivoterInit /\ [][PivoterNext]_vars

LoaderInit == LoadInit /\ CoreIdle /\ NameIdle /\ PivotIdle /\ SheetIdle /\ ReadIdle
LoaderNext == LoadLevel \/ ReturnDataDict
LoaderSpec == LoaderInit /\ [][LoaderNext]_vars

SheetsInit == SheetInit /\ CoreIdle /\ NameIdle /\ PivotIdle /\ LoadIdle /\ ReadIdle
SheetsNext == StartRun \/ ProcessFile \/ CombineYears
SheetsSpec == SheetsInit /\ [][SheetsNext]_vars

\* the processor followed by the dashboard's loader on the tree it left
DashboardInit == SheetsInit
DashboardNext ==
    StartRun \/ ProcessFile \/ CombineYears \/ PreloadCountry \/ LoadLevel
        \/ ReturnDataDict
DashboardSpec == DashboardInit /\ [][DashboardNext]_vars

ReadOthersIdle == CoreIdle /\ NameIdle /\ PivotIdle /\ LoadIdle /\ SheetIdle

FlattenSpecInit == FlattenInit /\ UnitIdle /\ ReadOthersIdle
FlattenNext == CleanColumn
FlattenSpec == FlattenSpecInit /\ [][FlattenNext]_vars

UnitRowInit == UnitInit /\ FlattenIdle /\ ReadOthersIdle
UnitRowNext == ReturnEmptyFrame \/ RenameColumns \/ DropUnitRow
UnitRowSpec == UnitRowInit /\ [][UnitRowNext]_vars


(***************************************************************************)
(* Properties of process_hierarchical_data (checked under Spec).           *)
(***************************************************************************)
PartNames ==
    {"total_df", "sector_df", "subsector_df", "sub_subsector_df",
     "sub_sub_subsector_df", "level_5_df", "level_6_df", "level_7_df",
     "level_8_df", "memo_df"}

LevelPartNames == PartNames \ {"memo_df"}

Range(f) == {f[k] : k \in DOMAIN f}

RECURSIVE SumLen(_, _)
SumLen(rec, names) ==
    IF names = {}
    THEN 0
    ELSE LET n == CHOOSE x \in names : TRUE
         IN  Len(rec[n]) + SumLen(rec, names \ {n})

\* row r has been through the propagation loop
Propagated(r) == r \in 1..Len(parsed) /\ r < i

\* the node is a non-numbered, non-Total, non-memo line
IsProse(p) == ~p.is_numbered /\ ~StartsWith(p.label, "Total") /\ ~p.is_memo

\* the last numbered row before row r, 0 when there is none
LastNumberedBefore(r) ==
    LET S == {k \in 1..(r - 1) : parsed[k].is_numbered}
    IN  IF S = {} THEN 0 ELSE SetMax(S)

\* C1: for any input table that has the category column, the call returns
\* and every input row is in exactly one of the ten returned partitions, so
\* the partition sizes sum to the number of input rows.
C1_PartitionCompleteness ==
    df.has_category_col =>
        /\ pc # "raised"
        /\ pc = "done" =>
            /\ \A r \in 1..Len(df.categories) :
                  Cardinality({n \in PartNames : r \in Range(parts[n])}) = 1
            /\ SumLen(parts, PartNames) = Len(df.categories)

\* C2: a non-numbered, non-Total, non-memo row receives the path of the most
\* recent preceding numbered row plus "child", or <<"1">> when no numbered
\* row precedes it; in <<"1.A fuel", "some prose note", "1.B other">> the
\* prose row receives <<"1","A","child">>, and moved after "1.B other" it
\* receives <<"1","B","child">>.
C2_ContextPropagationOrderedFold ==
    /\ \A r \in 1..Len(parsed) :
          Propagated(r) /\ IsProse(parsed[r]) =>
              parsed[r].levels =
                  IF LastNumberedBefore(r) = 0
                  THEN <<"1">>
                  ELSE parsed[LastNumberedBefore(r)].levels \o <<"child">>
    /\ df.categories = <<"1.A fuel", "some prose note", "1.B other">> /\ Propagated(2)
          => parsed[2].levels = <<"1", "A", "child">>
    /\ df.categories = <<"1.A fuel", "1.B other", "some prose note">> /\ Propagated(3)
          => parsed[3].levels = <<"1", "B", "child">>

C2_Witness ==
    /\ pc = "done"
    /\ df.categories = <<"1.A fuel", "some prose note", "1.B other">>
    /\ parsed[2].levels = <<"1", "A", "child">>

\* C3: processing a row whose is_memo flag is true, or whose label starts
\* with "Total", leaves current_context unchanged (such a row is never a
\* context anchor).
C3_MemoTotalNeverAnchor ==
    [][(/\ pc = "propagate"
        /\ i <= Len(parsed)
        /\ (parsed[i].is_memo \/ StartsWith(parsed[i].label, "Total")))
          => current_context' = current_context]_vars

\* C4: after propagation a row's path is non-empty iff the row is numbered
\* or was given a synthetic path; a synthetic path is given exactly to the
\* non-numbered, non-Total, non-memo rows, so non-numbered memo rows and
\* Total rows keep an empty path.
C4_PathNonEmptyIffNumberedOrSynthetic ==
    \A r \in 1..Len(parsed) :
        Propagated(r) =>
            LET p == parsed[r]
                synthetic == p.levels # get_category(df.categories[r]).levels
            IN  /\ (p.levels # <<>>) <=> (p.is_numbered \/ synthetic)
                /\ synthetic <=> IsProse(p)
                /\ ~p.is_numbered /\ (p.is_memo \/ StartsWith(p.label, "Total"))
                      => p.levels = <<>>

C4_Witness ==
    /\ pc = "propagate" /\ i > Len(parsed)
    /\ \E r \in 1..Len(parsed) : IsProse(parsed[r]) /\ parsed[r].levels # <<>>
    /\ \E r \in 1..Len(parsed) :
          ~parsed[r].is_numbered /\ parsed[r].is_memo /\ parsed[r].levels = <<>>
    /\ \E r \in 1..Len(parsed) :
          StartsWith(parsed[r].label, "Total") /\ parsed[r].levels = <<>>

\* the end-to-end example, with the label the Sector row is to carry
EndToEndResult(sector_label) ==
    df.has_category_col /\ df.categories = EndToEndExample /\ pc = "done" =>
        /\ parts.total_df = <<1>>
        /\ parts.sector_df = <<2>>
        /\ parts.subsector_df = <<3>>
        /\ parts.sub_subsector_df = <<4>>
        /\ parts.memo_df = <<5>>
        /\ out[2].Label = sector_label /\ parsed[2].levels = <<"1">>
        /\ out[3].Label = "Fuel combustion" /\ parsed[3].levels = <<"1", "A">>
        /\ out[4].Label = "Energy industries" /\ parsed[4].levels = <<"1", "A", "1">>
        /\ out[5].Is_Memo
        /\ \A n \in LevelPartNames : 5 \notin Range(parts[n])

DeepestPopulated(row) ==
    LET S == {k \in 1..Len(row.depth) : row.depth[k] # None}
    IN  IF S = {} THEN 0 ELSE SetMax(S)

\* the Level naming the k-th depth column
LevelNameOfDepth(k) ==
    IF k = 1 THEN "Sector"
    ELSE IF k = 2 THEN "Subsector"
    ELSE IF k = 3 THEN "Sub-subsector"
    ELSE IF k = 4 THEN "Sub-sub-subsector"
    ELSE "Level-" \o ToString(k)

\* C8: for every row, Level is Total iff the label starts with "Total";
\* otherwise Level names the deepest populated depth column, for every path
\* length; and Level is Unknown iff no depth column is populated and the
\* label is not a Total.
C8_LevelClassification ==
    pc \in {"partition", "done"} =>
        \A r \in 1..Len(out) :
            LET row == out[r]
                d == DeepestPopulated(row)
                total == StartsWith(row.Label, "Total")
            IN  /\ (row.Level = "Total") <=> total
                /\ ~total /\ d > 0 => row.Level = LevelNameOfDepth(d)
                /\ (row.Level = "Unknown") <=> (d = 0 /\ ~total)

\* the table has the category column, no numbered row and no Total row
LowInformation ==
    /\ df.has_category_col
    /\ \A r \in 1..Len(df.categories) :
          LET p == get_category(df.categories[r])
          IN  ~p.is_numbered /\ ~StartsWith(p.label, "Total")

\* C9: for a table with the category column, no numbered row and no Total
\* row, the call returns without raising and every row is classified
\* Unknown with no depth column populated.
C9_LowInformationNotAnError ==
    LowInformation =>
        /\ pc # "raised"
        /\ pc = "done" =>
              \A r \in 1..Len(out) :
                  out[r].Level = "Unknown" /\ DeepestPopulated(out[r]) = 0

RowHasAnchor(row) == \E c \in 1..Len(row) : AnchorIn(anchor, row[c])
RowHasKeyword(row) == \E c \in 1..Len(row) : KeywordIn(keywords, row[c])

\* 0-based index of the first scanned row with the anchor, else of the first
\* scanned row with a keyword
AnchorFirstRow ==
    LET A == {r \in 1..Len(preview) : RowHasAnchor(preview[r])}
        K == {r \in 1..Len(preview) : RowHasKeyword(preview[r])}
        least(S) == CHOOSE x \in S : \A y \in S : x <= y
    IN  IF A # {} THEN least(A) - 1 ELSE least(K) - 1

\* C10: the anchor has priority over the keywords: the call returns the
\* first scanned row holding the anchor even if an earlier row holds a
\* keyword, and the first row holding a keyword only when no scanned cell
\* holds the anchor (or no anchor is given); the result is <<r, r + 1>>.
C10_AnchorPriority ==
    hdr_pc = "returned" =>
        header_rows = <<AnchorFirstRow, AnchorFirstRow + 1>>


\* some cell of the first lookahead rows of the sheet holds the anchor or a
\* keyword, case-insensitively
ScannedMatch ==
    \E r \in 1..Len(sheet) :
        r <= lookahead /\ (RowHasAnchor(sheet[r]) \/ RowHasKeyword(sheet[r]))

\* C11: the call raises if and only if no cell in the first lookahead rows
\* holds the anchor or a keyword, case-insensitively; a match at or beyond
\* row index lookahead does not count, and a call that raises returns no
\* header index.
C11_HeaderNotFoundRaises ==
    /\ hdr_pc = "raised" => ~ScannedMatch /\ header_rows = <<>>
    /\ hdr_pc \in {"found", "returned"} => ScannedMatch
    /\ hdr_pc = "returned" => header_rows[1] < lookahead

C11_Witness ==
    /\ hdr_pc = "raised"
    /\ header_rows = <<>>
    /\ \E r \in 1..Len(sheet) :
          r > lookahead /\ (RowHasAnchor(sheet[r]) \/ RowHasKeyword(sheet[r]))


\* the string is numbered and holds no space
NumberedNoSpace(s) ==
    /\ Len(s) > 0
    /\ IsDigit(CharAt(s, 1))
    /\ Contains(s, ".")
    /\ ~Contains(s, " ")

\* C19: for a numbered string without a space, the label is the whole
\* string and the path is the whole string, leading and trailing dots
\* stripped, split on '.': its segments hold no dot and joined by dots they
\* give the stripped string back.
C19_NoSpaceWholeString ==
    (parse_pc = "return" /\ NumberedNoSpace(category_str)
        /\ ~StartsWith(category_str, "Total"))
    => /\ result.is_numbered
       /\ result.label = category_str
       /\ Len(result.levels) >= 1
       /\ \A k \in 1..Len(result.levels) : ~Contains(result.levels[k], ".")
       /\ Join(result.levels) = Strip(category_str, {"."})

C19_Witness ==
    /\ parse_pc = "return"
    /\ NumberedNoSpace(category_str)
    /\ Len(result.levels) = MaxSegs
    /\ result.levels[MaxSegs] = "D"
    /\ result.label = category_str


\* the name of the k-th depth column
DepthColumnName(k) ==
    IF k = 1 THEN "Sector"
    ELSE IF k = 2 THEN "Subsector"
    ELSE IF k = 3 THEN "Sub_subsector"
    ELSE IF k = 4 THEN "Sub_sub_subsector"
    ELSE "Level_" \o ToString(k)

\* the longest path among the rows with a non-empty path, 0 without one
MaxDepth ==
    LET lens == {Len(parsed[r].levels) : r \in 1..Len(parsed)}
    IN  IF lens = {} THEN 0 ELSE SetMax(lens)

YearTable ==
    [y \in {"1990", "2023", " 1991", "1_990", "+5", "007", "0"} |->
        IF y = "1990" THEN 1990
        ELSE IF y = "2023" THEN 2023
        ELSE IF y = " 1991" THEN 1991
        ELSE IF y = "1_990" THEN 1990
        ELSE IF y = "+5" THEN 5
        ELSE IF y = "007" THEN 7
        ELSE 0]

WrittenPivot ==
    (CHOOSE f \in pv_fs.files :
        f.dir = pv_path.dir /\ f.name = NewFilename(pv_path.name, pv_gas)).content

\* the cell of a pivot at (y, l), None when the pivot has no value there
CellOf(p, y, l) ==
    IF \E c \in p.cells : c[1] = y /\ c[2] = l
    THEN <<(CHOOSE c \in p.cells : c[1] = y /\ c[2] = l)[3]>>
    ELSE None

\* the call has returned after pivoting a partition that has the gas column
Pivoted == pv_pc = "returned" /\ pv_gas \in pv_df.columns

\* C15: a call whose gas column is not a column of the partition returns
\* without raising and leaves every file and directory as it was.
C15_MissingGasColumnSkips ==
    [][(pv_pc = "call" /\ pv_gas \notin pv_df.columns)
          => (pv_pc' = "returned" /\ pv_fs' = pv_fs)]_vars

C15_Witness ==
    /\ pv_pc = "returned"
    /\ pv_gas \notin pv_df.columns
    /\ Len(pv_df.rows) >= 1
    /\ \E f \in pv_fs.files : f.content = OldPivot

\* C16 as stated: for a (Year, Label) pair held by several rows, the pivot
\* cell holds the gas value of the first of these rows, missing or not.
C16_FirstRowWins ==
    Pivoted =>
        \A y \in PivotYears, l \in PivotLabels :
            LET G == GroupRows(pv_df.rows, y, l)
            IN  Cardinality(G) >= 2 =>
                    CellOf(WrittenPivot, y, l) =
                        pv_df.rows[CHOOSE r \in G : \A q \in G : r <= q].gas

\* C16: for a (Year, Label) pair held by several rows, the pivot cell holds
\* the first non-missing gas value of these rows in table order, and no
\* value when all of them are missing.
C16_FirstPresentValueWins ==
    Pivoted =>
        \A y \in PivotYears, l \in PivotLabels :
            LET G == GroupRows(pv_df.rows, y, l)
                c == CellOf(WrittenPivot, y, l)
            IN  Cardinality(G) >= 2 =>
                    /\ (c = None) <=> (\A r \in G : pv_df.rows[r].gas = None)
                    /\ c # None =>
                          \E r \in G :
                              /\ pv_df.rows[r].gas = c
                              /\ \A q \in G : q < r => pv_df.rows[q].gas = None

C16_Witness ==
    /\ Pivoted
    /\ Len(pv_df.rows) >= 2
    /\ pv_df.rows[1] = [Year |-> 1990, Label |-> "Energy", gas |-> None]
    /\ pv_df.rows[2] = [Year |-> 1990, Label |-> "Energy", gas |-> <<2>>]
    /\ CellOf(WrittenPivot, 1990, "Energy") = <<2>>

\* the index of a pivot is strictly ascending
StrictlyAscending(index) ==
    \A j, k \in 1..Len(index) : j < k => index[j] < index[k]

\* the labels with a non-missing gas value in some row
LabelsWithValue ==
    {pv_df.rows[r].Label : r \in {q \in 1..Len(pv_df.rows) : pv_df.rows[q].gas # None}}

\* the years with a non-missing gas value in some row
YearsWithValue ==
    {pv_df.rows[r].Year : r \in {q \in 1..Len(pv_df.rows) : pv_df.rows[q].gas # None}}

\* C17 as stated: one pivot row per distinct year of the partition, sorted
\* ascending without repetition, and one column per label with a value.
C17_RowPerYearOfPartition ==
    Pivoted =>
        /\ Range(WrittenPivot.index) = {pv_df.rows[r].Year : r \in 1..Len(pv_df.rows)}
        /\ StrictlyAscending(WrittenPivot.index)
        /\ WrittenPivot.columns = LabelsWithValue

\* C17: one pivot row per distinct year that has a non-missing gas value in
\* some row of the partition, sorted ascending without repetition, and one
\* column per label that has a non-missing gas value in some row.
C17_RowPerYearWithValue ==
    Pivoted =>
        /\ Range(WrittenPivot.index) = YearsWithValue
        /\ StrictlyAscending(WrittenPivot.index)
        /\ WrittenPivot.columns = LabelsWithValue

C17_Witness ==
    /\ Pivoted
    /\ Len(pv_df.rows) >= 3
    /\ pv_df.rows[1] = [Year |-> 1991, Label |-> "Waste", gas |-> <<1>>]
    /\ pv_df.rows[2] = [Year |-> 1990, Label |-> "Energy", gas |-> <<2>>]
    /\ pv_df.rows[3] = [Year |-> 1990, Label |-> "Waste", gas |-> None]
    /\ WrittenPivot.index = <<1990, 1991>>
    /\ WrittenPivot.columns = {"Energy", "Waste"}


\* how often x occurs in the sequence t
Count(t, x) == Cardinality({k \in 1..Len(t) : t[k] = x})

\* the rows a table may hold
LoaderRows == {"r1", "r2", "c1", "b1"}

\* C18: the call returns, and for each level its result is None when the
\* level directory does not exist or holds no parquet file, and otherwise
\* the concatenation of the parquet files of that directory: every row as
\* often as these files hold it.
C18_ReadSentinel ==
    /\ ld_pc # "raised"
    /\ ld_pc = "returned" =>
          \A k \in 1..Len(LevelKeys) :
              LET dir == "data/processed_data/" \o country_code \o "/"
                           \o (IF k = 1 THEN "total"
                               ELSE IF k = 2 THEN "sectors"
                               ELSE IF k = 3 THEN "subsectors"
                               ELSE "sub-subsectors")
                  parquet == {f \in ld_fs.files :
                                 f.dir = dir /\ f.name \in
                                    {"gbr_combined.parquet",
                                     "gbr_Summary2_1990.parquet"}}
                  loaded == GetLevel(data_dict, k)
              IN  IF dir \notin ld_fs.dirs \/ parquet = {}
                  THEN loaded = None
                  ELSE /\ loaded # None
                       /\ \A x \in LoaderRows :
                             Count(loaded[1], x) =
                                Cardinality({f \in parquet : Count(f.content, x) > 0})

C18_Witness ==
    /\ ld_pc = "returned"
    /\ country_code = "GBR"
    /\ data_dict.Total = None
    /\ data_dict.Sectors = None
    /\ "data/processed_data/GBR/sectors" \in ld_fs.dirs
    /\ data_dict.Subsectors = <<<<"r2", "r1", "r2">>>>
    /\ data_dict.Sub_subsectors = <<<<"r1", "r2">>>>


\* the workbook fails header detection, category-column lookup or filename
\* parsing
Failing(f) == f.defect \in {"header", "category", "filename"}

\* the rows of an artifact that come from the workbook f
RowsFrom(g, f) == {row \in BagToSet(g.content) : row.Source = f.name}

\* the name of the combined artifact of a level
IsCombined(g) ==
    \E k \in 1..Len(levels) :
        /\ g.dir = "data/processed_data/GBR/" \o levels[k]
        /\ g.name = "GBR_" \o levels[k] \o "_combined.parquet"

\* C13: no failure leaves process_summary_sheet; a workbook that fails
\* header detection, category-column lookup or filename parsing has no row
\* in any artifact, per-year or combined, at any time; every workbook of the
\* batch gets its iteration, the others past those three steps; and the
\* combine step runs: after the first invocation only combined artifacts
\* are left and they hold each row of each well-formed workbook once, in the
\* directory of its level.
C13_FailureIsolation ==
    /\ sh_pc # "raised"
    /\ \A f \in batch : Failing(f) =>
          \A g \in out_fs.files : RowsFrom(g, f) = {}
    /\ sh_pc = "done" =>
          /\ \A f \in batch :
                \E e \in log :
                    /\ e[1] = f.name
                    /\ Failing(f) <=> e[2] \in {"header", "category", "filename"}
          /\ runs = 1 =>
                /\ \A g \in out_fs.files : IsCombined(g)
                /\ \A f \in batch : f.defect = "none" =>
                      \A j \in 1..Len(f.categories) :
                          \E g \in out_fs.files :
                              /\ g.dir = "data/processed_data/GBR/" \o f.expect[j]
                              /\ \E row \in RowsFrom(g, f) :
                                    /\ row.Category = f.categories[j]
                                    /\ row.Sheet = sheet_name
                                    /\ CopiesIn(row, g.content) = 1

C13_Witness ==
    /\ sh_pc = "done"
    /\ runs = 1
    /\ \E f \in batch : f.defect = "header"
    /\ \E f \in batch : f.defect = "none" /\ Len(f.categories) = 4
    /\ \E g \in out_fs.files :
          /\ g.name = "GBR_total_combined.parquet"
          /\ BagCardinality(g.content) = 1

\* the second invocation used the sheet name of the first
SameSheetAsFirst ==
    \A g \in first_fs.files : \A row \in BagToSet(g.content) : row.Sheet = sheet_name

\* C14: after two invocations with the same sheet name on the same input
\* folder and output tree, the output tree is as the first invocation left
\* it: the same combined artifacts with the same rows.
C14_RerunIdempotent ==
    (sh_pc = "done" /\ runs = 2 /\ SameSheetAsFirst) => out_fs = first_fs

\* C25: the call raises if and only if no column name contains the category
\* marker; a table that has such a column, whatever its rows, is returned
\* as partitions.
C25_RaisesIffNoCategoryColumn ==
    /\ pc = "raised" => ~df.has_category_col
    /\ (pc \in {"propagate", "classify", "partition", "done"}) => df.has_category_col

\* a later un-numbered row took its synthetic path from row r
UsedAsAnchor(r) ==
    /\ parsed[r].levels # <<>>
    /\ \E q \in (r + 1)..Len(parsed) :
          /\ ~parsed[q].is_numbered
          /\ parsed[q].levels = parsed[r].levels \o <<"child">>
          /\ \A m \in (r + 1)..(q - 1) : ~parsed[m].is_numbered

\* C26: every row of the Total partition has an empty path, all its depth
\* columns null, and gave no later row its context, also when its label
\* starts with "Total" only after the code was stripped.
C26_TotalRowsOutsideHierarchy ==
    pc = "done" =>
        \A j \in 1..Len(parts.total_df) :
            LET r == parts.total_df[j]
            IN  /\ parsed[r].levels = <<>>
                /\ \A k \in 1..Len(out[r].depth) : out[r].depth[k] = None
                /\ ~UsedAsAnchor(r)

\* the node is a Total line as the parser sees it
IsTotalLine(p) == ~p.is_numbered /\ StartsWith(p.label, "Total")

\* how many segments of the path are "child"
ChildCount(path) == Cardinality({k \in 1..Len(path) : path[k] = "child"})

\* rows a+1..r hold no numbered row and no memo row
RunAfter(a, r) ==
    \A m \in (a + 1)..r : IsProse(parsed[m]) \/ IsTotalLine(parsed[m])

\* every row placed so far that ends a run of non-numbered rows after the
\* numbered row a has the path of a plus one "child"
RunsShareAnchor ==
    \A a, r \in 1..Len(parsed) :
        (a < r /\ Propagated(r) /\ parsed[a].is_numbered /\ RunAfter(a, r)
            /\ IsProse(parsed[r]))
        => /\ parsed[r].levels = parsed[a].levels \o <<"child">>
           /\ Len(parsed[r].levels) = Len(parsed[a].levels) + 1

\* C27: the step that gives a row its synthetic path leaves current_context
\* unchanged; every row of a run of non-numbered, non-memo rows after a
\* numbered row with path P, Total lines in between or not, has exactly
\* P + <<"child">>; and no path holds more than one "child".
C27_SyntheticRowsNeverNest ==
    /\ [](RunsShareAnchor
            /\ \A r \in 1..Len(parsed) : ChildCount(parsed[r].levels) <= 1)
    /\ [][(pc = "propagate" /\ i <= Len(parsed) /\ IsProse(parsed[i]))
             => current_context' = current_context]_vars

C27_Witness ==
    /\ pc = "done"
    /\ df.categories = <<"1.A fuel", "some prose note", "some prose note">>
    /\ parsed[2].levels = <<"1", "A", "child">>
    /\ parsed[3].levels = <<"1", "A", "child">>

DepthLevels ==
    {"Sector", "Subsector", "Sub-subsector", "Sub-sub-subsector",
     "Level-5", "Level-6", "Level-7", "Level-8"}

\* C28: once the rows are classified, every row that is not a memo row has
\* Level Total or one of Sector ... Level-8; a row with Level Unknown is an
\* un-numbered memo row, and it is returned in the memo partition.
C28_UnknownOnlyForMemoRows ==
    pc \in {"partition", "done"} =>
        \A r \in 1..Len(out) :
            /\ ~out[r].Is_Memo => out[r].Level \in DepthLevels \cup {"Total"}
            /\ out[r].Level = "Unknown" =>
                  /\ out[r].Is_Memo
                  /\ ~parsed[r].is_numbered
                  /\ pc = "done" => r \in Range(parts.memo_df)

C28_Witness ==
    /\ pc = "done"
    /\ \E r \in 1..Len(out) :
          /\ out[r].category = "some prose note"
          /\ out[r].Level = "Sector"
    /\ \E r \in 1..Len(out) :
          /\ out[r].Level = "Unknown"
          /\ r \in Range(parts.memo_df)

\* the rows a well-formed workbook of the batch has at a level, as pairs of
\* workbook and row number
ExpectedAt(level) ==
    {<<f, j>> \in batch \X (1..4) :
        f.defect = "none" /\ j <= Len(f.expect) /\ f.expect[j] = level}

\* C23: after the first invocation on an empty output tree, a level that
\* got a per-year artifact holds exactly one file, its combined artifact,
\* with each row of each well-formed workbook at that level once and no other
\* row; a level that got none holds no file.
C23_FreshCombine ==
    (sh_pc = "done" /\ runs = 1) =>
        \A k \in 1..Len(levels) :
            LET dir == "data/processed_data/GBR/" \o levels[k]
                here == {g \in out_fs.files : g.dir = dir}
                expected == ExpectedAt(levels[k])
            IN  IF expected = {}
                THEN here = {}
                ELSE /\ Cardinality(here) = 1
                     /\ \A g \in here :
                           /\ g.name = "GBR_" \o levels[k] \o "_combined.parquet"
                           /\ BagCardinality(g.content) = Cardinality(expected)
                           /\ \A e \in expected :
                                 \E row \in BagToSet(g.content) :
                                     /\ row.Source = e[1].name
                                     /\ row.Category = e[1].categories[e[2]]
                                     /\ row.Sheet = sheet_name
                                     /\ CopiesIn(row, g.content) = 1

C23_Witness ==
    /\ sh_pc = "done"
    /\ runs = 1
    /\ Cardinality({f \in batch : f.defect = "none"}) = 2
    /\ \E g \in out_fs.files :
          /\ g.name = "GBR_sectors_combined.parquet"
          /\ BagCardinality(g.content) = 2
    /\ \A g \in out_fs.files : g.dir # "data/processed_data/GBR/level_5"

\* C24: the iteration of a well-formed workbook ends without entering the
\* error handler, after the per-level artifacts and the gas pivots.
C24_WellFormedRunsToCompletion ==
    \A f \in batch : f.defect = "none" =>
        \A e \in log : e[1] = f.name => e[2] = "completed"

\* the combined Total artifacts of a tree
CombinedTotal(fs) ==
    {g \in fs.files :
        g.dir = "data/processed_data/GBR/total" /\ g.name = "GBR_total_combined.parquet"}

\* C29: after every invocation on a batch that has a well-formed workbook
\* with a Total row, the first or a later one, total/ holds the combined
\* Total artifact, with the Total rows of this invocation and those of the
\* first one in it, each once.
C29_CombinedSurvivesReruns ==
    (sh_pc = "done" /\ ExpectedAt("total") # {}) =>
        /\ CombinedTotal(out_fs) # {}
        /\ \A g \in CombinedTotal(out_fs) :
              /\ \A row \in BagToSet(g.content) : CopiesIn(row, g.content) = 1
              /\ \A e \in ExpectedAt("total") :
                    \E row \in BagToSet(g.content) :
                        /\ row.Source = e[1].name
                        /\ row.Sheet = sheet_name
              /\ \A h \in CombinedTotal(first_fs) :
                    \A row \in BagToSet(h.content) : BagIn(row, g.content)

\* the directory into which the processor writes the k-th dashboard level
WriterDir(k) ==
    "data/processed_data/GBR/"
        \o (IF k = 1 THEN "total"
            ELSE IF k = 2 THEN "sectors"
            ELSE IF k = 3 THEN "subsectors"
            ELSE "sub_subsectors")

\* C30: for each of the four dashboard levels, when the tree the processor
\* left holds a combined artifact of that level, load_country_data returns
\* that level as a table, not None.
C30_WriterReaderAgree ==
    ld_pc = "returned" =>
        \A k \in 1..4 :
            (\E g \in ld_fs.files : g.dir = WriterDir(k) /\ IsCombined(g))
                => GetLevel(data_dict, k) # None

(***************************************************************************)
(* C21: for every multi-row header column, flattening keeps only the       *)
(* header cells that match the allowlist when at least one matches, keeps  *)
(* all of the column's header cells when none matches, and the joined name *)
(* is never the empty string.                                              *)
(***************************************************************************)
MatchingCells(c) == SelectSeq(HeaderParts(c), IsRelevant)

C21_FlattenedNameNeverEmpty ==
    flat_pc = "returned" =>
        /\ clean_name[1] =
              Strip(JoinSpace(IF Len(MatchingCells(col)) > 0
                              THEN MatchingCells(col)
                              ELSE HeaderParts(col)), Whitespace)
        /\ clean_name[1] # ""

(***************************************************************************)
(* C22: unit-row absorption is all-or-nothing: the cells of the first data *)
(* row are appended to the column names and the row is dropped exactly     *)
(* when every cell of that row looks like a unit token; when the row is    *)
(* not dropped, every column name is left unchanged.                       *)
(***************************************************************************)
EveryCellIsUnit == \A k \in 1..Len(first_row) : is_unit(first_row[k])

AllAppended ==
    \A k \in 1..Len(first_row) :
        new_columns[k] = df_columns[k] \o " " \o Strip(Str(first_row[k]), Whitespace)

C22_AbsorptionAllOrNothing ==
    (unit_pc = "returned" /\ first_row # <<>>) =>
        /\ row_dropped <=> EveryCellIsUnit
        /\ row_dropped => AllAppended
        /\ ~row_dropped => new_columns = df_columns

====
